---------------------------- MODULE Spec2Model ----------------------------
(***************************************************************************)
(* Save Progress module of the games hub (src/save-progress.js): the       *)
(* console interceptor with its bounded log buffer, the note registry with *)
(* debounced persistence, the cross-window message relay, import and       *)
(* clear-all, over a persistent store of JSON values.                      *)
(***************************************************************************)
EXTENDS Integers, Sequences, FiniteSets, TLC

(***************************************************************************)
(* Program constants.                                                      *)
(***************************************************************************)
KEY_CONSOLE == "dbg_console_v1"
KEY_NOTES == "dbg_notes_v1"
MAX_LOGS == 400
DEBOUNCE_MS == 600

(***************************************************************************)
(* Bounds of the model.                                                    *)
(***************************************************************************)
\* intercepted or relayed appends of one session, the start-up one included
MaxAppends == 2
\* appends made beyond the capacity in a run that fills the buffer from empty
MaxExtra == 2
\* note edits (input events) of one session
MaxEdits == 3
\* ticks of the clock in one session; one tick is TickMs milliseconds
MaxTicks == 4
\* note edits and ticks of a session that also has relays, imports and clear-all
MaxHubEdits == 1
MaxHubTicks == 2
\* clicks of the inject toggle in one session
MaxToggles == 3
MaxCaptures == 2
MaxLocal == 1

\* one tick of the clock, in milliseconds
TickMs == DEBOUNCE_MS \div 2

(***************************************************************************)
(* JavaScript values.  A string stands for itself; Undefined is the value  *)
(* of a missing property, Absent marks a property that JSON.stringify      *)
(* dropped because its value was undefined.  Null is currentNoteKey's and  *)
(* noteSaveTimer's null.                                                   *)
(***************************************************************************)
Undefined == "<undefined>"
Absent == "<absent>"
Null == "<null>"
\* let noteSaveTimer = null; timer ids are positive
NoTimer == 0

\* String(v) and `${v}` for a string or undefined
Str(v) == IF v = Undefined THEN "undefined" ELSE v

Levels == <<"log", "warn", "error", "info", "debug">>
LevelSet == {Levels[i] : i \in 1..Len(Levels)}

(***************************************************************************)
(* Arguments of a console call.  typ is typeof a, json is the text         *)
(* JSON.stringify(a) returns (Throws when it throws, as for a cyclic       *)
(* object), str is String(a).                                              *)
(***************************************************************************)
Throws == "<throws>"
ArgHi == [typ |-> "string", json |-> "\"hi\"", str |-> "hi"]
ArgNum == [typ |-> "number", json |-> "7", str |-> "7"]
ArgObj == [typ |-> "object", json |-> "{\"x\":1}", str |-> "[object Object]"]
ArgCyclic == [typ |-> "object", json |-> Throws, str |-> "[object Object]"]
ArgLoaded ==
    [typ |-> "string", json |-> "\"[SaveProgress] Module loaded\"",
     str |-> "[SaveProgress] Module loaded"]
ArgOf(i) == [typ |-> "string", json |-> "\"" \o ToString(i) \o "\"", str |-> ToString(i)]

\* args.map(a => { try {...} catch(e) { return String(a); } })
StringifyArg(a) ==
    IF a.typ = "object"
    THEN (IF a.json = Throws THEN a.str ELSE a.json)
    ELSE a.str

RECURSIVE JoinSpace(_)
JoinSpace(ss) ==
    IF Len(ss) = 0 THEN ""
    ELSE IF Len(ss) = 1 THEN ss[1]
    ELSE ss[1] \o " " \o JoinSpace(Tail(ss))

FlattenArgs(args) == JoinSpace([i \in 1..Len(args) |-> StringifyArg(args[i])])

(***************************************************************************)
(* JSON.  A log entry is {t, lvl, msg}; a note record is {title, notes,    *)
(* ts}.  JSON.stringify drops a property whose value is undefined;         *)
(* reading a dropped property of the parsed value gives undefined.         *)
(***************************************************************************)
DropUndef(v) == IF v = Undefined THEN Absent ELSE v
ReadProp(v) == IF v = Absent THEN Undefined ELSE v

EntryToJSON(e) == [t |-> e.t, lvl |-> DropUndef(e.lvl), msg |-> DropUndef(e.msg)]
EntryFromJSON(j) == [t |-> j.t, lvl |-> ReadProp(j.lvl), msg |-> ReadProp(j.msg)]
LogsToJSON(logs) == [i \in 1..Len(logs) |-> EntryToJSON(logs[i])]
LogsFromJSON(js) == [i \in 1..Len(js) |-> EntryFromJSON(js[i])]

RecordToJSON(r) ==
    [title |-> DropUndef(r.title), notes |-> DropUndef(r.notes), ts |-> r.ts]
RecordFromJSON(j) ==
    [title |-> ReadProp(j.title), notes |-> ReadProp(j.notes), ts |-> j.ts]
NotesToJSON(ns) == [k \in DOMAIN ns |-> RecordToJSON(ns[k])]
NotesFromJSON(js) == [k \in DOMAIN js |-> RecordFromJSON(js[k])]

\* the empty registry {} and the empty array []
EmptyNotes == [k \in {} |-> 0]
EmptyLogs == <<>>

\* a stored item: ok is FALSE when the key is absent or its text does not parse
NoItem == [ok |-> FALSE, val |-> <<>>]
Item(json) == [ok |-> TRUE, val |-> json]

VARIABLES
    consoleLogs,     \* the in-memory log buffer
    notesStore,      \* the in-memory note registry
    store,           \* localStorage: key -> stored item
    writeFails,      \* localStorage.setItem throws (quota exceeded)
    now,             \* Date.now(), in milliseconds since start-up
    origCalls,       \* calls made to the preserved console handlers
    calls,           \* calls made to the wrapped console methods
    pushed,          \* entries pushed to the buffer since start-up
    base,            \* the buffer as loaded from the store at start-up
    alerts,          \* what the last import or clear-all told the user
    currentNoteKey,  \* the active note key, or Null
    selOptions,      \* the option values of the game select
    selValue,        \* the value of the game select
    areaValue,       \* the text of the notes area
    areaDisabled,    \* the notes area is disabled
    noteSaveTimer,   \* the id setTimeout returned last, or NoTimer
    timers,          \* the pending timers: {[id, due]}
    nEdits,          \* input events handled so far
    lastEdit,        \* key, text and time of the last handled edit
    timerWrites,     \* writes of the registry made by the debounce timer
    bursts,          \* runs of edits, each edit within DEBOUNCE_MS of the one before
    injectEnabled,   \* the injection flag
    makeBlankerHTML, \* window.makeBlankerHTML: Undefined or a function
    origMakeBlankerHTML, \* window.__origMakeBlankerHTML: Undefined or a function
    domReady,        \* DOMContentLoaded has been dispatched
    toggles,         \* the flag after each click of the inject toggle
    lastCall,        \* the last call of window.makeBlankerHTML, with its result
    clearedPending,  \* the timers that were pending at the last confirmed clear-all
    agentLogs,       \* child -> the agent's addLog calls, in order
    posts            \* child -> the messages the agent posted to its opener, in order

logVars == <<consoleLogs, origCalls, calls, pushed, base>>
noteVars == <<notesStore, currentNoteKey, selOptions, selValue, areaValue,
              areaDisabled, noteSaveTimer, timers, nEdits, lastEdit, timerWrites,
              bursts>>
selVars == <<currentNoteKey, selOptions, selValue, areaValue, areaDisabled>>
timerVars == <<noteSaveTimer, timers, nEdits, lastEdit, timerWrites, bursts>>
patchVars == <<injectEnabled, makeBlankerHTML, origMakeBlankerHTML, domReady,
               toggles, lastCall>>
agentVars == <<agentLogs, posts>>
vars == <<consoleLogs, notesStore, store, writeFails, now, origCalls, calls,
          pushed, base, alerts, currentNoteKey, selOptions, selValue,
          areaValue, areaDisabled, noteSaveTimer, timers, nEdits, lastEdit,
          timerWrites, bursts, injectEnabled, makeBlankerHTML,
          origMakeBlankerHTML, domReady, toggles, lastCall, clearedPending,
          agentLogs, posts>>

(***************************************************************************)
(* Storage helpers.                                                        *)
(***************************************************************************)
\* loadJSON(key, fallback), on the store st; fromJSON reads the parsed value
loadJSON(st, key, fallback) == IF st[key].ok THEN st[key].val ELSE fallback

\* saveJSON(key, val): the store after the call; a failing write is swallowed
saveJSON(st, key, json) ==
    IF writeFails THEN st ELSE [st EXCEPT ![key] = Item(json)]

\* a save of the registry as it was last read from the store
saveNotesStale(st, ns) == saveJSON(st, KEY_NOTES, loadJSON(st, KEY_NOTES, EmptyNotes))

\* function saveNotes() { saveJSON(KEY_NOTES, notesStore); }
saveNotes(st, ns) == saveJSON(st, KEY_NOTES, NotesToJSON(ns))

\* localStorage.setItem starts or stops throwing (the quota is reached or freed)
QuotaChanges ==
    /\ writeFails' = ~writeFails
    /\ UNCHANGED <<logVars, noteVars, patchVars, clearedPending, agentVars, store,
                   now, alerts>>

(***************************************************************************)
(* Console interceptor.                                                    *)
(***************************************************************************)
\* a truncation that drops the newest entries instead of the oldest
TruncateKeepsOldest(logs) ==
    IF Len(logs) > MAX_LOGS THEN SubSeq(logs, 1, MAX_LOGS) ELSE logs

\* if (consoleLogs.length > MAX_LOGS) consoleLogs.splice(0, length - MAX_LOGS)
Truncate(logs) ==
    IF Len(logs) > MAX_LOGS
    THEN SubSeq(logs, Len(logs) - MAX_LOGS + 1, Len(logs))
    ELSE logs

\* consoleLogs.push(entry), then the truncation
PushEntry(logs, entry) == Truncate(Append(logs, entry))

\* the entry console[method](...args) builds
LocalEntry(method, args, t) == [t |-> t, lvl |-> method, msg |-> FlattenArgs(args)]

\* a wrapper that records the call and leaves the original handler out
ConsoleCallSuppresses(method, args) ==
    LET entry == LocalEntry(method, args, now)
        logs == PushEntry(consoleLogs, entry)
    IN  /\ calls' = Append(calls, [method |-> method, args |-> args])
        /\ origCalls' = origCalls
        /\ consoleLogs' = logs
        /\ pushed' = Append(pushed, entry)
        /\ store' = saveJSON(store, KEY_CONSOLE, LogsToJSON(logs))
        /\ UNCHANGED <<noteVars, patchVars, clearedPending, agentVars,
                       writeFails, now, base, alerts>>

\* a wrapper that gives up, entry unrecorded, when the store cannot be written
ConsoleCallDropsOnFailure(method, args) ==
    LET entry == LocalEntry(method, args, now)
        logs == IF writeFails THEN consoleLogs ELSE PushEntry(consoleLogs, entry)
    IN  /\ calls' = Append(calls, [method |-> method, args |-> args])
        /\ origCalls' = Append(origCalls, [method |-> method, args |-> args])
        /\ consoleLogs' = logs
        /\ pushed' = Append(pushed, entry)
        /\ store' = saveJSON(store, KEY_CONSOLE, LogsToJSON(logs))
        /\ UNCHANGED <<noteVars, patchVars, clearedPending, agentVars,
                       writeFails, now, base, alerts>>

\* console[method](...args), through the wrapper
ConsoleCall(method, args) ==
    LET entry == LocalEntry(method, args, now)
        logs == PushEntry(consoleLogs, entry)
    IN  /\ calls' = Append(calls, [method |-> method, args |-> args])
        /\ origCalls' = Append(origCalls, [method |-> method, args |-> args])
        /\ consoleLogs' = logs
        /\ pushed' = Append(pushed, entry)
        /\ store' = saveJSON(store, KEY_CONSOLE, LogsToJSON(logs))
        /\ UNCHANGED <<noteVars, patchVars, clearedPending, agentVars,
                       writeFails, now, base, alerts>>


\* the "Clear logs" button
ClearLogs ==
    /\ consoleLogs' = EmptyLogs
    /\ store' = saveJSON(store, KEY_CONSOLE, EmptyLogs)
    /\ UNCHANGED <<noteVars, patchVars, clearedPending, agentVars, writeFails,
                   now, origCalls, calls, pushed, base, alerts>>

(***************************************************************************)
(* Notes tab.                                                              *)
(***************************************************************************)
\* the launcher's catalog, localStorage "dbg_items_v6": read-only here
Catalog == <<[id |-> "g1", title |-> "Game One"], [id |-> "g2", title |-> Undefined]>>
CatalogIds == {Catalog[i].id : i \in 1..Len(Catalog)}

\* items.find(x => x.id === key), then found.title || key
TitleFor(key) ==
    LET hits == {i \in 1..Len(Catalog) : Catalog[i].id = key}
        first == CHOOSE i \in hits : \A j \in hits : i <= j
    IN  IF hits = {} THEN key
        ELSE IF Catalog[first].title \in {Undefined, ""} THEN key
        ELSE Catalog[first].title

\* notesStore[key]?.notes || ""
NoteText(ns, key) ==
    IF key \notin DOMAIN ns THEN ""
    ELSE IF ns[key].notes = Undefined THEN ""
    ELSE ns[key].notes

\* loadNoteForKey(key); key is "" for the placeholder option
loadNoteForKey(key) ==
    /\ currentNoteKey' = (IF key = "" THEN Null ELSE key)
    /\ areaDisabled' = (key = "")
    /\ areaValue' = (IF key = "" THEN "" ELSE NoteText(notesStore, key))

\* populateGameSelect(), run when the notes tab is clicked
populateGameSelect ==
    LET options == {""} \cup DOMAIN notesStore \cup CatalogIds
        value == IF selValue \in options THEN selValue ELSE ""
    IN  /\ selOptions' = options
        /\ selValue' = value
        /\ loadNoteForKey(value)
        /\ UNCHANGED <<logVars, notesStore, timerVars, store, patchVars,
                       clearedPending, agentVars, writeFails, now, alerts>>

\* a change handler that cancels the pending save
SelectChangeCancels(value) ==
    /\ value \in selOptions
    /\ selValue' = value
    /\ selOptions' = selOptions
    /\ loadNoteForKey(value)
    /\ timers' = {}
    /\ UNCHANGED <<logVars, notesStore, noteSaveTimer, nEdits, lastEdit,
                   timerWrites, bursts, store, patchVars, clearedPending,
                   agentVars, writeFails, now, alerts>>

\* a change handler that files an empty record for the selected key
SelectChangeCreates(value) ==
    /\ value \in selOptions
    /\ selValue' = value
    /\ selOptions' = selOptions
    /\ loadNoteForKey(value)
    /\ notesStore' = (IF value = "" \/ value \in DOMAIN notesStore THEN notesStore
                      ELSE [k \in DOMAIN notesStore \cup {value} |->
                               IF k = value
                               THEN [title |-> TitleFor(value), notes |-> "", ts |-> now]
                               ELSE notesStore[k]])
    /\ UNCHANGED <<logVars, timerVars, store, patchVars, clearedPending,
                   agentVars, writeFails, now, alerts>>

\* the game select's change handler
SelectChange(value) ==
    /\ value \in selOptions
    /\ selValue' = value
    /\ selOptions' = selOptions
    /\ loadNoteForKey(value)
    /\ UNCHANGED <<logVars, notesStore, timerVars, store, patchVars, clearedPending,
                   agentVars, writeFails, now, alerts>>

\* a write that sets the title of an existing record too
WithTextRetitled(ns, key, title, text, t) ==
    [k \in DOMAIN ns \cup {key} |->
        IF k = key THEN [title |-> title, notes |-> text, ts |-> t] ELSE ns[k]]

\* the record an edit or a relayed note writes: created when missing
WithText(ns, key, title, text, t) ==
    LET rec == IF key \in DOMAIN ns
               THEN [ns[key] EXCEPT !.notes = text, !.ts = t]
               ELSE [title |-> title, notes |-> text, ts |-> t]
    IN  [k \in DOMAIN ns \cup {key} |-> IF k = key THEN rec ELSE ns[k]]

\* setTimeout without the clearTimeout before it
RescheduleKeepsOld(pending, old, id, t) ==
    pending \cup {[id |-> id, due |-> t + DEBOUNCE_MS]}

\* clearTimeout(noteSaveTimer); noteSaveTimer = setTimeout(..., 600)
Reschedule(pending, old, id, t) ==
    {tm \in pending : tm.id # old} \cup {[id |-> id, due |-> t + DEBOUNCE_MS]}

\* the notes area's input handler, the area now holding text
NotesInput(text) ==
    /\ ~areaDisabled
    /\ text # areaValue
    /\ areaValue' = text
    /\ nEdits' = nEdits + 1
    /\ IF currentNoteKey = Null
       THEN UNCHANGED <<notesStore, noteSaveTimer, timers, lastEdit, bursts>>
       ELSE /\ notesStore' = WithText(notesStore, currentNoteKey,
                                      TitleFor(currentNoteKey), text, now)
            /\ noteSaveTimer' = nEdits + 1
            /\ timers' = Reschedule(timers, noteSaveTimer, nEdits + 1, now)
            /\ lastEdit' = [key |-> currentNoteKey, text |-> text, at |-> now]
            /\ bursts' = (IF lastEdit.key # Null /\ now < lastEdit.at + DEBOUNCE_MS
                          THEN bursts ELSE bursts + 1)
    /\ UNCHANGED <<logVars, currentNoteKey, selOptions, selValue, areaDisabled,
                   timerWrites, store, patchVars, clearedPending, agentVars,
                   writeFails, now, alerts>>

\* a callback that saves the registry with the record of the edit that set it
TimerFireStale(tm) ==
    /\ tm \in timers
    /\ tm.due <= now
    /\ timers' = timers \ {tm}
    /\ store' = saveNotes(store, WithText(notesStore, lastEdit.key, TitleFor(lastEdit.key),
                                         lastEdit.text, lastEdit.at))
    /\ timerWrites' = timerWrites + 1
    /\ UNCHANGED <<logVars, notesStore, selVars, noteSaveTimer, nEdits,
                   lastEdit, bursts, patchVars, clearedPending, agentVars,
                   writeFails, now, alerts>>

\* the callback of the debounce timer tm
TimerFire(tm) ==
    /\ tm \in timers
    /\ tm.due <= now
    /\ timers' = timers \ {tm}
    /\ store' = saveNotes(store, notesStore)
    /\ timerWrites' = timerWrites + 1
    /\ UNCHANGED <<logVars, notesStore, selVars, noteSaveTimer, nEdits,
                   lastEdit, bursts, patchVars, clearedPending, agentVars,
                   writeFails, now, alerts>>

\* no timer is due: a due timer's callback runs before anything else does
NoTimerDue == \A tm \in timers : tm.due > now

\* time passes
Tick ==
    /\ NoTimerDue
    /\ now' = now + TickMs
    /\ UNCHANGED <<logVars, noteVars, store, patchVars, clearedPending,
                   agentVars, writeFails, alerts>>

(***************************************************************************)
(* Message relay.  data is e.data: obj is FALSE for a value that is not an *)
(* object; a field holds a string, or Undefined when it is missing.        *)
(***************************************************************************)
\* a relayed entry without the source title
RelayEntryUntitled(data, t) == [t |-> t, lvl |-> data.lvl, msg |-> Str(data.msg)]

\* { t: Date.now(), lvl: e.data.lvl, msg: `[${e.data.gameTitle}] ${e.data.msg}` }
RelayEntry(data, t) ==
    [t |-> t, lvl |-> data.lvl,
     msg |-> "[" \o Str(data.gameTitle) \o "] " \o Str(data.msg)]

\* window's "message" listener
OnMessage(data) ==
    IF ~data.obj
    THEN UNCHANGED vars
    ELSE IF data.type = "sp_log"
    THEN LET entry == RelayEntry(data, now)
             logs == PushEntry(consoleLogs, entry)
         IN  /\ consoleLogs' = logs
             /\ pushed' = Append(pushed, entry)
             /\ store' = saveJSON(store, KEY_CONSOLE, LogsToJSON(logs))
             /\ UNCHANGED <<noteVars, patchVars, clearedPending, agentVars,
                            writeFails, now, origCalls, calls, base, alerts>>
    ELSE IF data.type = "sp_note"
    THEN LET ns == WithText(notesStore, Str(data.key), data.gameTitle, data.txt, now)
         IN  /\ notesStore' = ns
             /\ store' = saveNotes(store, ns)
             /\ UNCHANGED <<logVars, selVars, timerVars, patchVars, clearedPending,
                            agentVars, writeFails, now, alerts>>
    ELSE UNCHANGED vars

(***************************************************************************)
(* Import and clear-all.  file is the chosen file: valid is FALSE when its *)
(* text is no JSON; notes and logs tell what data.notes and                *)
(* data.consoleLogs are.                                                   *)
(***************************************************************************)
AlertOk == "Import successful"
AlertInvalid == "Invalid save file"
AlertCleared == "Cleared"

\* a merge in which the records already in the registry win
AssignKeepsOld(ns, src) ==
    [k \in DOMAIN ns \cup DOMAIN src |-> IF k \in DOMAIN ns THEN ns[k] ELSE src[k]]

\* Object.assign(notesStore, data.notes)
Assign(ns, src) ==
    [k \in DOMAIN ns \cup DOMAIN src |-> IF k \in DOMAIN src THEN src[k] ELSE ns[k]]

\* an import that empties the buffer when the file has no consoleLogs
ImportLoadResets(file) ==
    /\ IF ~file.valid
       THEN /\ alerts' = <<AlertInvalid>>
            /\ UNCHANGED <<consoleLogs, notesStore, store>>
       ELSE LET ns == IF file.notes.kind = "object"
                      THEN Assign(notesStore, NotesFromJSON(file.notes.val))
                      ELSE notesStore
            IN  IF file.logs.kind = "number"
                THEN \* consoleLogs.length=0, then push(...number) throws
                     /\ notesStore' = ns
                     /\ consoleLogs' = EmptyLogs
                     /\ alerts' = <<AlertInvalid>>
                     /\ UNCHANGED store
                ELSE LET logs == IF file.logs.kind = "array"
                                 THEN LogsFromJSON(file.logs.val)
                                 ELSE EmptyLogs
                     IN  /\ notesStore' = ns
                         /\ consoleLogs' = logs
                         /\ store' = saveJSON(saveNotes(store, ns), KEY_CONSOLE,
                                              LogsToJSON(logs))
                         /\ alerts' = <<AlertOk>>
    /\ UNCHANGED <<selVars, timerVars, patchVars, clearedPending, agentVars,
                   writeFails, now, origCalls, calls, pushed, base>>

\* reader.onload of the import file input
ImportLoad(file) ==
    /\ IF ~file.valid
       THEN /\ alerts' = <<AlertInvalid>>
            /\ UNCHANGED <<consoleLogs, notesStore, store>>
       ELSE LET ns == IF file.notes.kind = "object"
                      THEN Assign(notesStore, NotesFromJSON(file.notes.val))
                      ELSE notesStore
            IN  IF file.logs.kind = "number"
                THEN \* consoleLogs.length=0, then push(...number) throws
                     /\ notesStore' = ns
                     /\ consoleLogs' = EmptyLogs
                     /\ alerts' = <<AlertInvalid>>
                     /\ UNCHANGED store
                ELSE LET logs == IF file.logs.kind = "array"
                                 THEN LogsFromJSON(file.logs.val)
                                 ELSE consoleLogs
                     IN  /\ notesStore' = ns
                         /\ consoleLogs' = logs
                         /\ store' = saveJSON(saveNotes(store, ns), KEY_CONSOLE,
                                              LogsToJSON(logs))
                         /\ alerts' = <<AlertOk>>
    /\ UNCHANGED <<selVars, timerVars, patchVars, clearedPending, agentVars,
                   writeFails, now, origCalls, calls, pushed, base>>

\* the "Clear ALL saved data" button; confirmed is the answer to confirm()
ClearAll(confirmed) ==
    IF ~confirmed
    THEN UNCHANGED vars
    ELSE /\ consoleLogs' = EmptyLogs
         /\ notesStore' = EmptyNotes
         /\ store' = saveNotes(saveJSON(store, KEY_CONSOLE, EmptyLogs), EmptyNotes)
         /\ alerts' = <<AlertCleared>>
         /\ clearedPending' = timers
         /\ UNCHANGED <<selVars, timerVars, patchVars, agentVars, writeFails,
                        now, origCalls, calls, pushed, base>>

(***************************************************************************)
(* Injection patcher.  A document is a sequence of pieces of text, the     *)
(* marker "</body>" being a piece of its own.  A function value is a       *)
(* record: NoFunction for undefined, Launcher for the launcher's factory,  *)
(* WrapperFn for the function patchMakeBlankerHTML installs, which looks   *)
(* up window.__origMakeBlankerHTML when it is called.                      *)
(***************************************************************************)
KEY_INJECT == "dbg_inject_enabled"
Marker == "</body>"
Quote == "\""
AgentHead == "<style>#sp-mini</style><div id=sp-mini></div><script>const gameTitle="
AgentTail == ";const gameKey='sp_blanker_'+encodeURIComponent(gameTitle);<\\/script>"
StackOverflow == "<RangeError>"

NoFunction == [kind |-> "undefined"]
Launcher == [kind |-> "external"]
WrapperFn == [kind |-> "wrapper"]

\* the launcher's factory: the document it builds for (title, src, autoFS)
LauncherHTML(title, src, autoFS) ==
    <<"<html><head><title>">> \o title \o <<"</title></head><body>">> \o src
        \o <<IF autoFS THEN "<script>fs()</script>" ELSE "<script></script>">>
        \o <<Marker, "</html>">>

\* JSON.stringify(title)
JsonString(title) ==
    <<Quote>> \o [i \in 1..Len(title) |-> IF title[i] = Quote THEN "\\\"" ELSE title[i]]
        \o <<Quote>>

\* the template literal inject
inject(title) == <<AgentHead>> \o JsonString(title) \o <<AgentTail>>

\* the first index of piece in doc, 0 when there is none
FirstIndex(doc, piece) ==
    LET hits == {i \in 1..Len(doc) : doc[i] = piece}
    IN  IF hits = {} THEN 0 ELSE CHOOSE i \in hits : \A j \in hits : i <= j

\* the text a piece of the replacement string stands for in String.replace
Substitution(piece, matched, before, after) ==
    IF piece = "$$" THEN <<"$">>
    ELSE IF piece = "$&" THEN <<matched>>
    ELSE IF piece = "$`" THEN before
    ELSE IF piece = "$'" THEN after
    ELSE <<piece>>

RECURSIVE GetSubstitution(_, _, _, _)
GetSubstitution(repl, matched, before, after) ==
    IF repl = <<>> THEN <<>>
    ELSE Substitution(Head(repl), matched, before, after)
            \o GetSubstitution(Tail(repl), matched, before, after)

\* doc.replace(pattern, repl) for a string pattern: the first occurrence only
Replace(doc, pattern, repl) ==
    LET i == FirstIndex(doc, pattern)
        before == SubSeq(doc, 1, i - 1)
        after == SubSeq(doc, i + 1, Len(doc))
    IN  IF i = 0 THEN doc
        ELSE before \o GetSubstitution(repl, pattern, before, after) \o after

\* a call fn(title, src, autoFS): the calls that reach the launcher's
\* factory and the document returned
CallExternal(title, src, autoFS) ==
    [forwarded |-> <<[title |-> title, src |-> src, autoFS |-> autoFS]>>,
     out |-> LauncherHTML(title, src, autoFS)]

\* window.makeBlankerHTML = function(title, src, autoFS) { ... }, orig being
\* window.__origMakeBlankerHTML when the call is made
Wrapper(orig, title, src, autoFS) ==
    IF orig.kind # "external"
    THEN \* the wrapper calling itself without end, or calling undefined
         [forwarded |-> <<>>, out |-> <<StackOverflow>>]
    ELSE LET made == CallExternal(title, src, autoFS)
         IN  [forwarded |-> made.forwarded,
              out |-> Replace(made.out, Marker, inject(title) \o <<Marker>>)]

CallFunction(fn, orig, title, src, autoFS) ==
    IF fn.kind = "wrapper" THEN Wrapper(orig, title, src, autoFS)
    ELSE CallExternal(title, src, autoFS)

\* a patcher that captures the current factory on every attempt
patchRecaptures(enabled, fn, orig) ==
    IF ~enabled
    THEN [fn |-> IF orig # NoFunction THEN orig ELSE fn, orig |-> orig]
    ELSE LET captured == IF fn # NoFunction THEN fn ELSE orig
         IN  IF captured = NoFunction
             THEN [fn |-> fn, orig |-> captured]
             ELSE [fn |-> WrapperFn, orig |-> captured]

\* a patcher whose disable branch leaves the wrapper in place
patchKeepsWrapper(enabled, fn, orig) ==
    IF ~enabled
    THEN [fn |-> fn, orig |-> orig]
    ELSE LET captured == IF orig = NoFunction /\ fn # NoFunction THEN fn ELSE orig
         IN  IF captured = NoFunction
             THEN [fn |-> fn, orig |-> captured]
             ELSE [fn |-> WrapperFn, orig |-> captured]

\* patchMakeBlankerHTML(): window.makeBlankerHTML and
\* window.__origMakeBlankerHTML after the call
patchMakeBlankerHTML(enabled, fn, orig) ==
    IF ~enabled
    THEN [fn |-> IF orig # NoFunction THEN orig ELSE fn, orig |-> orig]
    ELSE LET captured == IF orig = NoFunction /\ fn # NoFunction THEN fn ELSE orig
         IN  IF captured = NoFunction
             THEN [fn |-> fn, orig |-> captured]
             ELSE [fn |-> WrapperFn, orig |-> captured]

\* a click handler that flips the flag and leaves the factory alone
InjectToggleSkipsPatch ==
    /\ injectEnabled' = ~injectEnabled
    /\ store' = saveJSON(store, KEY_INJECT, ~injectEnabled)
    /\ toggles' = Append(toggles, ~injectEnabled)
    /\ UNCHANGED <<logVars, noteVars, makeBlankerHTML, origMakeBlankerHTML,
                   domReady, lastCall, clearedPending, agentVars, writeFails,
                   now, alerts>>

\* the inject toggle's click handler
InjectToggle ==
    LET r == patchMakeBlankerHTML(~injectEnabled, makeBlankerHTML, origMakeBlankerHTML)
    IN  /\ injectEnabled' = ~injectEnabled
        /\ store' = saveJSON(store, KEY_INJECT, ~injectEnabled)
        /\ makeBlankerHTML' = r.fn
        /\ origMakeBlankerHTML' = r.orig
        /\ toggles' = Append(toggles, ~injectEnabled)
        /\ UNCHANGED <<logVars, noteVars, domReady, lastCall, clearedPending,
                       agentVars, writeFails, now, alerts>>

\* a listener that notes the event and makes no patch attempt
DOMContentLoadedSkipsPatch ==
    /\ ~domReady
    /\ domReady' = TRUE
    /\ UNCHANGED <<logVars, noteVars, injectEnabled, makeBlankerHTML,
                   origMakeBlankerHTML, toggles, lastCall, store, clearedPending,
                   agentVars, writeFails, now, alerts>>

\* document's DOMContentLoaded listener, dispatched once
DOMContentLoaded ==
    LET r == patchMakeBlankerHTML(injectEnabled, makeBlankerHTML, origMakeBlankerHTML)
    IN  /\ ~domReady
        /\ domReady' = TRUE
        /\ makeBlankerHTML' = r.fn
        /\ origMakeBlankerHTML' = r.orig
        /\ UNCHANGED <<logVars, noteVars, injectEnabled, toggles, lastCall, store,
                       clearedPending, agentVars, writeFails, now, alerts>>

\* the launcher's script defines window.makeBlankerHTML
LauncherLoads ==
    /\ makeBlankerHTML = NoFunction
    /\ makeBlankerHTML' = Launcher
    /\ UNCHANGED <<logVars, noteVars, injectEnabled, origMakeBlankerHTML,
                   domReady, toggles, lastCall, store, clearedPending,
                   agentVars, writeFails, now, alerts>>

NoCall ==
    [made |-> FALSE, title |-> <<>>, src |-> <<>>, autoFS |-> FALSE,
     forwarded |-> <<>>, out |-> <<>>, toggles |-> <<>>, patched |-> FALSE]

\* the launcher opens a child window: window.makeBlankerHTML(title, src, autoFS)
OpenBlanker(title, src, autoFS) ==
    LET r == CallFunction(makeBlankerHTML, origMakeBlankerHTML, title, src, autoFS)
    IN  /\ makeBlankerHTML # NoFunction
        /\ lastCall' = [made |-> TRUE, title |-> title, src |-> src, autoFS |-> autoFS,
                        forwarded |-> r.forwarded, out |-> r.out, toggles |-> toggles,
                        patched |-> makeBlankerHTML = WrapperFn]
        /\ UNCHANGED <<logVars, noteVars, injectEnabled, makeBlankerHTML,
                       origMakeBlankerHTML, domReady, toggles, store,
                       clearedPending, agentVars, writeFails, now, alerts>>

(***************************************************************************)
(* Start-up.  The module loads the buffer and the registry from the store, *)
(* wraps the console and logs one line through the wrapper.                *)
(***************************************************************************)
(* Injected agent.  A child is a window in which the wrapper's document    *)
(* runs, named by the title the document was made with; its opener is the  *)
(* hub.  The agent's mini log is a view of its addLog calls and is left    *)
(* out; agentLogs keeps the calls themselves.                              *)
(***************************************************************************)
Children == {"Asteroids", "Cash"}

\* {type:'sp_log',lvl,msg,gameTitle}
AgentPost(lvl, msg, title) ==
    [obj |-> TRUE, type |-> "sp_log", lvl |-> lvl, msg |-> msg, gameTitle |-> title,
     key |-> Undefined, txt |-> Undefined]

\* an addLog that posts its entry twice
addLogPostsTwice(c, lvl, msg) ==
    /\ agentLogs' = [agentLogs EXCEPT ![c] = Append(@, [lvl |-> lvl, msg |-> msg])]
    /\ posts' = [posts EXCEPT ![c] = Append(Append(@, AgentPost(lvl, msg, c)),
                                            AgentPost(lvl, msg, c))]
    /\ UNCHANGED <<logVars, noteVars, patchVars, clearedPending, store, writeFails,
                   now, alerts>>

\* function addLog(lvl,msg) of the agent in child c
addLog(c, lvl, msg) ==
    /\ agentLogs' = [agentLogs EXCEPT ![c] = Append(@, [lvl |-> lvl, msg |-> msg])]
    /\ posts' = [posts EXCEPT ![c] = Append(@, AgentPost(lvl, msg, c))]
    /\ UNCHANGED <<logVars, noteVars, patchVars, clearedPending, store, writeFails,
                   now, alerts>>

\* console[m]=function(...a){orig(...a);addLog(m,a.map(...).join(' '));}
AgentConsole(c, m, args) == m \in LevelSet /\ addLog(c, m, FlattenArgs(args))

\* the agent's 'error' listener
AgentUncaught(c, message, filename, lineno) ==
    addLog(c, "error",
           "Uncaught: " \o message \o " (" \o filename \o ":" \o lineno \o ")")

\* the agent's 'unhandledrejection' listener
AgentRejection(c, reason) == addLog(c, "error", "Unhandled promise: " \o reason)

(***************************************************************************)
\* the call console.log("[SaveProgress] Module loaded ...") that ends start-up
LoadedCall == [method |-> "log", args |-> <<ArgLoaded>>]

\* a buffer of n entries stored by an earlier session
OldLogs(n) ==
    [i \in 1..n |-> [t |-> i - n - 1, lvl |-> Levels[(i % 5) + 1], msg |-> "old"]]

\* a registry stored by an earlier session
OldNotes == [k \in {"g1"} |-> [title |-> "Game One", notes |-> "a", ts |-> -1]]

\* the state after the module has run, on the store st0 and the
\* window.makeBlankerHTML fn0 found at start-up
InitHub(st0, fn0) ==
    LET loaded == LogsFromJSON(loadJSON(st0, KEY_CONSOLE, EmptyLogs))
        entry == LocalEntry("log", <<ArgLoaded>>, 0)
        logs == PushEntry(loaded, entry)
        enabled == loadJSON(st0, KEY_INJECT, FALSE)
        r == patchMakeBlankerHTML(enabled, fn0, NoFunction)
    IN  /\ base = loaded
        /\ injectEnabled = enabled
        /\ makeBlankerHTML = r.fn
        /\ origMakeBlankerHTML = r.orig
        /\ domReady = FALSE
        /\ toggles = <<>>
        /\ lastCall = NoCall
        /\ clearedPending = {}
        /\ agentLogs = [c \in Children |-> <<>>]
        /\ posts = [c \in Children |-> <<>>]
        /\ consoleLogs = logs
        /\ pushed = <<entry>>
        /\ calls = <<LoadedCall>>
        /\ origCalls = <<LoadedCall>>
        /\ notesStore = NotesFromJSON(loadJSON(st0, KEY_NOTES, EmptyNotes))
        /\ store = [st0 EXCEPT ![KEY_CONSOLE] = Item(LogsToJSON(logs)),
                                ![KEY_INJECT] = Item(enabled)]
        /\ writeFails = FALSE
        /\ now = 0
        /\ alerts = <<>>
        /\ currentNoteKey = Null
        /\ selOptions = {""}
        /\ selValue = ""
        /\ areaValue = ""
        /\ areaDisabled = FALSE
        /\ noteSaveTimer = NoTimer
        /\ timers = {}
        /\ nEdits = 0
        /\ lastEdit = [key |-> Null, text |-> "", at |-> 0]
        /\ timerWrites = 0
        /\ bursts = 0

\* the state after the module has run on a page without the launcher
InitOn(st0) == InitHub(st0, NoFunction)

\* a store with the flag item under the injection key
StoreWith(logsItem, notesItem, flagItem) ==
    [k \in {KEY_CONSOLE, KEY_NOTES, KEY_INJECT} |->
        IF k = KEY_CONSOLE THEN logsItem
        ELSE IF k = KEY_NOTES THEN notesItem
        ELSE flagItem]

StoreOf(logsItem, notesItem) == StoreWith(logsItem, notesItem, [ok |-> FALSE, val |-> FALSE])

(***************************************************************************)
(* Inputs.                                                                 *)
(***************************************************************************)
ArgLists == {<<ArgHi>>, <<ArgObj, ArgCyclic, ArgNum>>}

Msg(type, lvl, msg, title, key, txt) ==
    [obj |-> TRUE, type |-> type, lvl |-> lvl, msg |-> msg, gameTitle |-> title,
     key |-> key, txt |-> txt]
NotAnObject ==
    [obj |-> FALSE, type |-> Undefined, lvl |-> Undefined, msg |-> Undefined,
     gameTitle |-> Undefined, key |-> Undefined, txt |-> Undefined]
LogRelay(lvl, msg, title) == Msg("sp_log", lvl, msg, title, Undefined, Undefined)
NoteRelay(key, txt, title) == Msg("sp_note", Undefined, Undefined, title, key, txt)

\* what the injected agent of a window titled title posts
AgentKey(title) == "sp_blanker_" \o title
LogRelays == {LogRelay(l, "hi", "Asteroids") : l \in {"warn", "debug"}}
NoteRelays == {NoteRelay(k, "r", "Asteroids") : k \in {AgentKey("Asteroids"), "g1"}}
\* messages no agent posts
OddMessages ==
    { NotAnObject,
      Msg(Undefined, "warn", "hi", "Asteroids", "g1", "r"),
      Msg("sp_other", "warn", "hi", "Asteroids", "g1", "r"),
      LogRelay(Undefined, Undefined, Undefined),
      LogRelay("warn", "hi", Undefined),
      LogRelay("fatal", "hi", "Asteroids"),
      NoteRelay(Undefined, Undefined, Undefined),
      NoteRelay("g1", Undefined, "Asteroids") }
Messages == LogRelays \cup NoteRelays \cup OddMessages
IsLogRelay(data) == data.obj /\ data.type = "sp_log"

Texts == {"a", "b"}

NoField == [kind |-> "absent", val |-> <<>>]
FileOf(notes, logs) == [valid |-> TRUE, notes |-> notes, logs |-> logs]
NotJSON == [valid |-> FALSE, notes |-> NoField, logs |-> NoField]
FileNotesOf(keys) ==
    [kind |-> "object",
     val |-> [k \in keys |-> [title |-> "T" \o k, notes |-> "i", ts |-> -2]]]
FileNotes == FileNotesOf({"g1", "g3"})
NotIterable == [kind |-> "number", val |-> <<>>]
FileLogs(n) == [kind |-> "array", val |-> LogsToJSON(OldLogs(n))]
Files ==
    { NotJSON,
      FileOf(NoField, NoField),
      FileOf(FileNotes, NoField),
      FileOf(NoField, FileLogs(2)),
      FileOf(FileNotes, FileLogs(0)),
      FileOf(FileNotes, FileLogs(MAX_LOGS + 1)),
      FileOf(FileNotes, NotIterable) }
FilesNotes ==
    { NotJSON,
      FileOf(FileNotesOf({"g1"}), FileLogs(0)),
      FileOf(FileNotesOf({"g1"}), NotIterable) }

(***************************************************************************)
(* The log buffer and the note registry share no handler that reads one to *)
(* write the other, so the hub is checked in two projections.  SpecLog has *)
(* every handler that reads or writes the log buffer, on a store whose     *)
(* buffer an earlier session left one entry short of full.  SpecNotes has  *)
(* every handler that reads or writes the note registry, with the clock    *)
(* and the debounce timer.  The message listener, import and clear-all are *)
(* in both.                                                                *)
(***************************************************************************)
InitLog ==
    \E logsItem \in {NoItem, Item(LogsToJSON(OldLogs(MAX_LOGS - 1)))} :
        InitOn(StoreOf(logsItem, NoItem))

ConsoleCalls ==
    {[method |-> m, args |-> <<ArgHi>>] : m \in LevelSet}
        \cup {[method |-> "debug", args |-> <<ArgObj, ArgCyclic, ArgNum>>]}
Console == \E c \in ConsoleCalls :
    Len(pushed) < MaxAppends /\ ConsoleCall(c.method, c.args)
MessageLog == \E data \in LogRelays \cup OddMessages :
    (IsLogRelay(data) => Len(pushed) < MaxAppends) /\ OnMessage(data)
Import == \E file \in Files : ImportLoad(file)
ImportNotes == \E file \in FilesNotes : NoTimerDue /\ ImportLoad(file)
Clear == \E confirmed \in BOOLEAN : ClearAll(confirmed)

NextLog ==
    \/ Console
    \/ ClearLogs
    \/ MessageLog
    \/ Import
    \/ Clear

SpecLog == InitLog /\ [][NextLog]_vars

InitNotes ==
    \E notesItem \in {NoItem, Item(NotesToJSON(OldNotes))} :
        InitOn(StoreOf(NoItem, notesItem))

TabNotes == NoTimerDue /\ populateGameSelect
Select == \E value \in selOptions : NoTimerDue /\ SelectChange(value)
Timer == \E tm \in timers : TimerFire(tm)
MessageNotes == \E data \in NoteRelays : NoTimerDue /\ OnMessage(data)
ClearNotes == \E confirmed \in BOOLEAN : NoTimerDue /\ ClearAll(confirmed)
InputHub == \E text \in Texts : NoTimerDue /\ nEdits < MaxHubEdits /\ NotesInput(text)
ClockHub == now < MaxHubTicks * TickMs /\ Tick

NextNotes ==
    \/ Timer
    \/ TabNotes
    \/ Select
    \/ InputHub
    \/ MessageNotes
    \/ ImportNotes
    \/ ClearNotes
    \/ ClockHub

SpecNotes == InitNotes /\ [][NextNotes]_vars

(***************************************************************************)
(* SpecEdit: the notes tab alone -- selecting, typing, the clock and the   *)
(* debounce timer -- for longer runs of edits.                             *)
(***************************************************************************)
Input == \E text \in Texts : NoTimerDue /\ nEdits < MaxEdits /\ NotesInput(text)
Clock == now < MaxTicks * TickMs /\ Tick

NextEdit ==
    \/ Timer
    \/ TabNotes
    \/ Select
    \/ Input
    \/ Clock

SpecEdit == InitNotes /\ [][NextEdit]_vars

(***************************************************************************)
(* SpecPatch: the injection patcher -- the flag, the toggle, the two       *)
(* start-up patch attempts -- with the launcher that defines the factory,  *)
(* at start-up or later, and calls it.                                     *)
(***************************************************************************)
Titles == {<<"Asteroids">>, <<"Cash", "$$">>, <<"A", "$&", "B">>}
Sources == {<<"game.html">>, <<"<script>var end='", Marker, "';</script>">>}

InitPatch ==
    \E flagItem \in {[ok |-> FALSE, val |-> FALSE], Item(FALSE), Item(TRUE)},
       fn0 \in {NoFunction, Launcher} :
        InitHub(StoreWith(NoItem, NoItem, flagItem), fn0)

Toggle == Len(toggles) < MaxToggles /\ InjectToggle
Open == \E title \in Titles, src \in Sources, autoFS \in BOOLEAN :
    OpenBlanker(title, src, autoFS)

NextPatch ==
    \/ Toggle
    \/ DOMContentLoaded
    \/ LauncherLoads
    \/ Open

SpecPatch == InitPatch /\ [][NextPatch]_vars

(***************************************************************************)
(* SpecQuota: appends, note edits and the debounce timer while the store   *)
(* may refuse writes, from a store whose items are absent or unparseable   *)
(* or hold an earlier session's values.                                    *)
(***************************************************************************)
InitQuota ==
    \E logsItem \in {NoItem, Item(LogsToJSON(OldLogs(2)))},
       notesItem \in {NoItem, Item(NotesToJSON(OldNotes))} :
        InitOn(StoreOf(logsItem, notesItem))

ConsoleQuota == \E args \in ArgLists :
    NoTimerDue /\ Len(pushed) < MaxAppends /\ ConsoleCall("error", args)
RelayQuota ==
    NoTimerDue /\ Len(pushed) < MaxAppends /\ OnMessage(LogRelay("warn", "hi", "Asteroids"))

NextQuota ==
    \/ QuotaChanges
    \/ ConsoleQuota
    \/ RelayQuota
    \/ Timer
    \/ TabNotes
    \/ Select
    \/ InputHub
    \/ ClockHub

SpecQuota == InitQuota /\ [][NextQuota]_vars

(***************************************************************************)
(* SpecImport: import and clear-all on a short buffer and a small          *)
(* registry, with the appends and relayed notes that fill them.            *)
(***************************************************************************)
FilesImport ==
    { NotJSON,
      FileOf(FileNotes, NoField),
      FileOf(NoField, FileLogs(2)),
      FileOf(FileNotes, FileLogs(3)),
      FileOf(FileNotes, NotIterable) }

InitImport ==
    \E logsItem \in {NoItem, Item(LogsToJSON(OldLogs(2)))},
       notesItem \in {NoItem, Item(NotesToJSON(OldNotes))} :
        InitOn(StoreOf(logsItem, notesItem))

ImportFile == \E file \in FilesImport : ImportLoad(file)
ConsoleImport == Len(pushed) < MaxAppends /\ ConsoleCall("info", <<ArgHi>>)
RelayImport == \E data \in NoteRelays : OnMessage(data)

NextImport ==
    \/ ImportFile
    \/ ConsoleImport
    \/ RelayImport
    \/ ClearLogs
    \/ Clear

SpecImport == InitImport /\ [][NextImport]_vars

(***************************************************************************)
(* SpecAppend: appends alone, filling the buffer from start-up to MaxExtra *)
(* entries beyond its capacity.  Until the buffer is one entry short of    *)
(* full the n-th append is a fixed one, through the interceptor for even n *)
(* and through the relay for odd n, each with its own text; from there on  *)
(* every append is chosen freely.                                          *)
(***************************************************************************)
Filling(n) == n < MAX_LOGS - 1
FillLevel(n) == Levels[(n % 5) + 1]
ConsoleInputs(n) ==
    IF Filling(n)
    THEN (IF n % 2 = 0 THEN {[method |-> FillLevel(n), args |-> <<ArgOf(n)>>]} ELSE {})
    ELSE {[method |-> m, args |-> <<ArgHi>>] : m \in LevelSet}
RelayInputs(n) ==
    IF Filling(n)
    THEN (IF n % 2 = 1 THEN {LogRelay(FillLevel(n), ToString(n), "Asteroids")} ELSE {})
    ELSE LogRelays

InitAppend ==
    \E logsItem \in {NoItem, Item(LogsToJSON(OldLogs(MAX_LOGS)))} :
        InitOn(StoreOf(logsItem, NoItem))

AppendLocal == \E c \in ConsoleInputs(Len(pushed)) :
    Len(pushed) < MAX_LOGS + MaxExtra /\ ConsoleCall(c.method, c.args)
AppendRelayed == \E data \in RelayInputs(Len(pushed)) :
    Len(pushed) < MAX_LOGS + MaxExtra /\ OnMessage(data)

NextAppend == AppendLocal \/ AppendRelayed

SpecAppend == InitAppend /\ [][NextAppend]_vars

(***************************************************************************)
(* SpecRelay: two children whose agents capture entries and post them, a   *)
(* channel from each child to the hub that keeps the order of a child's    *)
(* messages and may lose any of them, and the hub's own console calls, on  *)
(* a buffer that an earlier session left one entry short of full.          *)
(* The k-th entry a child captures carries the text of k, so that an entry *)
(* of the hub's buffer tells which capture it relays.  A message of a      *)
(* child can still be delivered while no later message of that child has   *)
(* reached the hub.                                                        *)
(***************************************************************************)
Relayed(c, i) == RelayEntry(posts[c][i], now)

\* the posts of child c that have reached the hub
Arrived(c) ==
    {i \in 1..Len(posts[c]) :
        \E j \in 1..Len(pushed) :
            pushed[j].msg = Relayed(c, i).msg /\ pushed[j].lvl = Relayed(c, i).lvl}
InFlight(c) == {i \in 1..Len(posts[c]) : \A k \in Arrived(c) : k < i}

InitRelay == InitOn(StoreOf(Item(LogsToJSON(OldLogs(MAX_LOGS - 1))), NoItem))

\* what makes child c's k-th entry: its console, an uncaught error or a
\* rejected promise, in turn, the two children starting at different turns
Turn(c, k) == (k + (IF c = "Cash" THEN 1 ELSE 0)) % 3
NextCapture(c) == Len(agentLogs[c]) + 1
NextText(c) == ToString(NextCapture(c))
CanCapture(c, turn) == NextCapture(c) <= MaxCaptures /\ Turn(c, NextCapture(c)) = turn

ChildConsole == \E c \in Children :
    CanCapture(c, 1) /\ AgentConsole(c, "warn", <<ArgOf(NextCapture(c))>>)
ChildUncaught == \E c \in Children :
    CanCapture(c, 2) /\ AgentUncaught(c, NextText(c), "game.js", "1")
ChildRejection == \E c \in Children :
    CanCapture(c, 0) /\ AgentRejection(c, NextText(c))
Deliver == \E c \in Children : \E i \in InFlight(c) : OnMessage(posts[c][i])
HubConsole == Len(calls) <= MaxLocal /\ ConsoleCall("info", <<ArgHi>>)

NextRelay ==
    \/ ChildConsole
    \/ ChildUncaught
    \/ ChildRejection
    \/ Deliver
    \/ HubConsole
    \/ ClearLogs

SpecRelay == InitRelay /\ [][NextRelay]_vars

(***************************************************************************)
(* C1.  After N + k appends (k >= 0, N = MAX_LOGS) through the interceptor *)
(* and the relay, from a start-up buffer of at most N entries, the buffer  *)
(* holds exactly N entries: the last N appended, in append order.          *)
(***************************************************************************)
LastAppended(n) == SubSeq(pushed, Len(pushed) - n + 1, Len(pushed))

C1_LastNAppended ==
    Len(pushed) >= MAX_LOGS =>
        /\ Len(consoleLogs) = MAX_LOGS
        /\ consoleLogs = LastAppended(MAX_LOGS)

C1_Witness ==
    /\ Len(pushed) = MAX_LOGS + MaxExtra
    /\ Len(base) = MAX_LOGS
    /\ \E i \in 1..Len(pushed) : pushed[i].msg = "[Asteroids] hi"

(***************************************************************************)
(* C2.  In every reachable state of the hub the log buffer holds at most   *)
(* MAX_LOGS entries.                                                       *)
(***************************************************************************)
C2_WithinCapacity == Len(consoleLogs) <= MAX_LOGS

(***************************************************************************)
(* C3.  A call of a wrapped console level calls the preserved original     *)
(* handler exactly once, with the same arguments in the same order, and    *)
(* appends exactly one entry, whose level is the level called.             *)
(***************************************************************************)
LastN(seq, n) == IF Len(seq) <= n THEN seq ELSE SubSeq(seq, Len(seq) - n + 1, Len(seq))
Min(a, b) == IF a <= b THEN a ELSE b

\* logs1 is logs with entry appended and the oldest entries dropped to capacity
AppendedOne(logs, logs1, entry) ==
    LET n == Len(logs1)
    IN  /\ n = Min(Len(logs) + 1, MAX_LOGS)
        /\ logs1[n] = entry
        /\ SubSeq(logs1, 1, n - 1) = LastN(logs, n - 1)

C3_PassThrough ==
    [][calls' # calls =>
        LET call == calls'[Len(calls')]
            entry == consoleLogs'[Len(consoleLogs')]
        IN  /\ call.method \in LevelSet
            /\ calls' = Append(calls, call)
            /\ origCalls' = Append(origCalls, call)
            /\ entry.lvl = call.method
            /\ AppendedOne(consoleLogs, consoleLogs', entry)]_vars

C3_Witness ==
    /\ Len(calls) = MaxAppends
    /\ origCalls = calls
    /\ Len(calls[Len(calls)].args) = 3
    /\ calls[Len(calls)].method = "debug"
    /\ Len(consoleLogs) = MAX_LOGS
    /\ consoleLogs[MAX_LOGS].lvl = "debug"

(***************************************************************************)
(* C4.  A relayed sp_log message with title T, level L and message M       *)
(* appends exactly one entry, with level L and message "[T] M", drops the  *)
(* oldest entries to capacity as a local append does, and persists the     *)
(* buffer; title "Asteroids" and message "hi" give "[Asteroids] hi".       *)
(***************************************************************************)
HasAll(data, fields) == \A f \in fields : data[f] # Undefined
FullLogRelays ==
    {d \in LogRelays \cup OddMessages :
        IsLogRelay(d) /\ HasAll(d, {"lvl", "msg", "gameTitle"})}

C4_RelayAppends ==
    [][\A d \in FullLogRelays : OnMessage(d) =>
        LET entry == [t |-> now, lvl |-> d.lvl,
                      msg |-> "[" \o d.gameTitle \o "] " \o d.msg]
        IN  /\ AppendedOne(consoleLogs, consoleLogs', entry)
            /\ (d.gameTitle = "Asteroids" /\ d.msg = "hi") =>
                    consoleLogs'[Len(consoleLogs')].msg = "[Asteroids] hi"
            /\ store'[KEY_CONSOLE] = Item(LogsToJSON(consoleLogs'))]_vars

C4_Witness ==
    /\ Len(consoleLogs) = MAX_LOGS
    /\ Len(base) = MAX_LOGS - 1
    /\ consoleLogs[1] = base[2]
    /\ consoleLogs[MAX_LOGS] = [t |-> 0, lvl |-> "warn", msg |-> "[Asteroids] hi"]
    /\ store[KEY_CONSOLE] = Item(LogsToJSON(consoleLogs))

(***************************************************************************)
(* C6.  A message that is malformed -- no object, an unknown or missing    *)
(* type, an sp_log without lvl, msg or gameTitle, an sp_note without key,  *)
(* txt or gameTitle -- changes neither the buffer, the registry nor the    *)
(* store, and logs nothing.                                                *)
(***************************************************************************)
Malformed(data) ==
    \/ ~data.obj
    \/ data.type \notin {"sp_log", "sp_note"}
    \/ data.type = "sp_log" /\ ~HasAll(data, {"lvl", "msg", "gameTitle"})
    \/ data.type = "sp_note" /\ ~HasAll(data, {"key", "txt", "gameTitle"})

C6_MalformedIgnored ==
    [][\A d \in {m \in OddMessages : Malformed(m)} : OnMessage(d) =>
        UNCHANGED <<consoleLogs, notesStore, store, calls, origCalls>>]_vars

(***************************************************************************)
(* C5.  A relayed sp_note message for key K creates a record with the      *)
(* relayed title and text when the registry has none for K; when it has    *)
(* one, the record's text and timestamp are overwritten and its title is   *)
(* kept; the records of all other keys stay as they are.                   *)
(***************************************************************************)
C5_NoteRelay ==
    [][\A d \in NoteRelays : OnMessage(d) =>
        /\ DOMAIN notesStore' = DOMAIN notesStore \cup {d.key}
        /\ notesStore'[d.key].notes = d.txt
        /\ notesStore'[d.key].ts = now
        /\ notesStore'[d.key].title =
                (IF d.key \in DOMAIN notesStore THEN notesStore[d.key].title
                 ELSE d.gameTitle)
        /\ \A k \in DOMAIN notesStore \ {d.key} : notesStore'[k] = notesStore[k]]_vars

C5_Witness ==
    /\ AgentKey("Asteroids") \in DOMAIN notesStore
    /\ notesStore[AgentKey("Asteroids")] = [title |-> "Asteroids", notes |-> "r", ts |-> 0]
    /\ "g1" \in DOMAIN notesStore
    /\ notesStore["g1"] = [title |-> "Game One", notes |-> "r", ts |-> TickMs]

(***************************************************************************)
(* C7.  A run of note edits, each within DEBOUNCE_MS of the one before,    *)
(* gives exactly one write of the registry to the store: none while the    *)
(* run goes on, one DEBOUNCE_MS after its last edit, and that write stores *)
(* the text of the last edit for the edited key.                           *)
(***************************************************************************)
Edited == lastEdit.key # Null
StoredNotes == NotesFromJSON(loadJSON(store, KEY_NOTES, EmptyNotes))

C7_OneWritePerRun ==
    Edited =>
        /\ now < lastEdit.at + DEBOUNCE_MS =>
                /\ timerWrites = bursts - 1
                /\ Cardinality(timers) = 1
        /\ \A tm \in timers : tm.due = lastEdit.at + DEBOUNCE_MS
        /\ timers = {} =>
                /\ timerWrites = bursts
                /\ now >= lastEdit.at + DEBOUNCE_MS
                /\ lastEdit.key \in DOMAIN StoredNotes
                /\ StoredNotes[lastEdit.key].notes = lastEdit.text

C7_Witness ==
    /\ nEdits = 3
    /\ bursts = 1
    /\ timerWrites = 1
    /\ lastEdit = [key |-> "g1", text |-> "a", at |-> 2 * TickMs]
    /\ timers = {}
    /\ StoredNotes["g1"].notes = "a"

(***************************************************************************)
(* C8.  Edits that span more than the debounce window give one write per   *)
(* window that elapses after an edit: the timer writes when DEBOUNCE_MS    *)
(* have passed since the last edit, never later, and each write stores the *)
(* registry as it is in memory when the timer fires.                       *)
(***************************************************************************)
C8_OneWritePerWindow ==
    /\ [](Edited /\ now > lastEdit.at + DEBOUNCE_MS => timers = {} /\ timerWrites = bursts)
    /\ [][timerWrites' # timerWrites =>
            /\ timerWrites' = timerWrites + 1
            /\ now = lastEdit.at + DEBOUNCE_MS
            /\ store'[KEY_NOTES] = Item(NotesToJSON(notesStore))]_vars

C8_Witness ==
    /\ bursts = 2
    /\ timerWrites = 2
    /\ nEdits = 3
    /\ now = lastEdit.at + DEBOUNCE_MS
    /\ StoredNotes = notesStore

(***************************************************************************)
(* C9.  An edit of key A that is pending when the active key is switched   *)
(* to B is not lost: while A's text in the store differs from A's text in  *)
(* memory a timer stays pending, and every write of the registry stores    *)
(* A's text as it is in memory then.                                       *)
(***************************************************************************)
TextIn(ns, key) == IF key \in DOMAIN ns THEN ns[key].notes ELSE Undefined

C9_PendingEditKept ==
    /\ [](\A a \in DOMAIN notesStore :
            a # currentNoteKey /\ TextIn(StoredNotes, a) # notesStore[a].notes
                => timers # {})
    /\ [][store'[KEY_NOTES] # store[KEY_NOTES] =>
            \A a \in DOMAIN notesStore' :
                TextIn(NotesFromJSON(store'[KEY_NOTES].val), a) = notesStore'[a].notes]_vars

C9_Witness ==
    /\ currentNoteKey = "g2"
    /\ lastEdit = [key |-> "g2", text |-> "a", at |-> TickMs]
    /\ timerWrites = 1
    /\ "g1" \in DOMAIN StoredNotes
    /\ StoredNotes["g1"] = [title |-> "Game One", notes |-> "b", ts |-> 0]

(***************************************************************************)
(* C10.  Selecting a key that has no record, with no edit, creates none:   *)
(* a step that is no edit, message, import or timer leaves the registry    *)
(* and the store as they are, however often the selection is repeated.     *)
(***************************************************************************)
C10_SelectionCreatesNothing ==
    [][(selValue' # selValue \/ currentNoteKey' # currentNoteKey \/ selOptions' # selOptions)
        => notesStore' = notesStore /\ store' = store]_vars

C10_Witness ==
    /\ currentNoteKey = "g2"
    /\ selValue = "g2"
    /\ "g2" \notin DOMAIN notesStore
    /\ "g2" \notin DOMAIN StoredNotes
    /\ nEdits = 0

(***************************************************************************)
(* C11.  As stated: after enable, disable, enable of the patcher the       *)
(* factory's output is the same as if it had never been patched.           *)
(***************************************************************************)
EndsWith(seq, tail) ==
    /\ Len(seq) >= Len(tail)
    /\ SubSeq(seq, Len(seq) - Len(tail) + 1, Len(seq)) = tail
Unpatched(c) == LauncherHTML(c.title, c.src, c.autoFS)
PatchedOnce(c) == Wrapper(Launcher, c.title, c.src, c.autoFS).out

C11_RoundTripUnpatched ==
    lastCall.made /\ EndsWith(lastCall.toggles, <<TRUE, FALSE, TRUE>>)
        => lastCall.out = Unpatched(lastCall)

(***************************************************************************)
(* C11, amended.  After enable, disable the factory's output is the same   *)
(* as if it had never been patched; after enable, disable, enable it is    *)
(* the output of a factory patched once, for the same title, source and    *)
(* flag.                                                                   *)
(***************************************************************************)
C11_RoundTrip ==
    lastCall.made =>
        /\ EndsWith(lastCall.toggles, <<TRUE, FALSE>>) =>
                lastCall.out = Unpatched(lastCall)
        /\ EndsWith(lastCall.toggles, <<TRUE, FALSE, TRUE>>) /\ lastCall.patched =>
                lastCall.out = PatchedOnce(lastCall)

C11_Witness ==
    /\ lastCall.made
    /\ lastCall.toggles = <<TRUE, FALSE, TRUE>>
    /\ lastCall.patched
    /\ lastCall.title = <<"Asteroids">>
    /\ lastCall.out = PatchedOnce(lastCall)
    /\ lastCall.out # Unpatched(lastCall)

(***************************************************************************)
(* C12.  When the flag is toggled to disabled while the factory is         *)
(* patched, the global factory is the captured original again, and until   *)
(* the flag is enabled again every call of the factory returns what the    *)
(* unpatched factory returns for the same arguments.                       *)
(***************************************************************************)
C12_DisableRestores ==
    /\ [](~injectEnabled => makeBlankerHTML # WrapperFn)
    /\ [][(injectEnabled /\ ~injectEnabled' /\ makeBlankerHTML = WrapperFn) =>
            makeBlankerHTML' = origMakeBlankerHTML /\ makeBlankerHTML' = Launcher]_vars
    /\ [][(lastCall' # lastCall /\ ~injectEnabled) =>
            /\ lastCall'.out = Unpatched(lastCall')
            /\ AgentHead \notin {lastCall'.out[i] : i \in 1..Len(lastCall'.out)}]_vars

C12_Witness ==
    /\ ~injectEnabled
    /\ origMakeBlankerHTML = Launcher
    /\ makeBlankerHTML = Launcher
    /\ lastCall.made
    /\ lastCall.toggles = toggles
    /\ toggles = <<FALSE>>
    /\ lastCall.out = Unpatched(lastCall)

(***************************************************************************)
(* C13.  After any toggles and patch attempts, the two at start-up         *)
(* included, the stored original is undefined or the launcher's factory,   *)
(* never a wrapper; a call of the patched factory calls the original once  *)
(* and returns a document with one agent payload.                          *)
(***************************************************************************)
Count(doc, piece) == Cardinality({i \in 1..Len(doc) : doc[i] = piece})

C13_OriginalNeverWrapper ==
    /\ origMakeBlankerHTML \in {NoFunction, Launcher}
    /\ makeBlankerHTML = WrapperFn => origMakeBlankerHTML = Launcher
    /\ lastCall.made /\ lastCall.patched =>
            /\ Len(lastCall.forwarded) = 1
            /\ Count(lastCall.out, AgentHead) = 1
            /\ Count(lastCall.out, AgentTail) = 1

C13_Witness ==
    /\ Len(toggles) = MaxToggles
    /\ domReady
    /\ injectEnabled
    /\ makeBlankerHTML = WrapperFn
    /\ lastCall.made /\ lastCall.patched
    /\ lastCall.toggles = toggles
    /\ Count(lastCall.out, AgentHead) = 1

(***************************************************************************)
(* C14.  The patched factory calls the original with the title, source and *)
(* flag it was given and returns the original's document with the agent    *)
(* payload right before the marker that ends the document body and every   *)
(* other piece unchanged, also when the document has the marker text more  *)
(* than once or the title has characters special to the replacement.       *)
(***************************************************************************)
LastIndex(doc, piece) ==
    LET hits == {i \in 1..Len(doc) : doc[i] = piece}
    IN  IF hits = {} THEN 0 ELSE CHOOSE i \in hits : \A j \in hits : i >= j

InsertedBeforeEnd(doc, payload) ==
    LET i == LastIndex(doc, Marker)
    IN  SubSeq(doc, 1, i - 1) \o payload \o SubSeq(doc, i, Len(doc))

C14_PayloadBeforeMarker ==
    lastCall.made /\ lastCall.patched =>
        /\ lastCall.forwarded =
                <<[title |-> lastCall.title, src |-> lastCall.src,
                   autoFS |-> lastCall.autoFS]>>
        /\ lastCall.out = InsertedBeforeEnd(Unpatched(lastCall), inject(lastCall.title))

(***************************************************************************)
(* C15.  An import of a file without a consoleLogs field leaves the log    *)
(* buffer as it is; an import of a file without a notes field leaves the   *)
(* note registry as it is; an import of a file that is no JSON leaves      *)
(* both, and the store, as they are and tells the user of one failure.     *)
(***************************************************************************)
C15_ImportFrame ==
    [][\A f \in FilesImport : ImportLoad(f) =>
        /\ (f.valid /\ f.logs.kind = "absent") => consoleLogs' = consoleLogs
        /\ (f.valid /\ f.notes.kind = "absent") => notesStore' = notesStore
        /\ ~f.valid =>
                /\ UNCHANGED <<consoleLogs, notesStore, store>>
                /\ alerts' = <<AlertInvalid>>]_vars

C15_Witness ==
    /\ alerts = <<AlertOk>>
    /\ "g3" \in DOMAIN notesStore
    /\ base = OldLogs(2)
    /\ consoleLogs = Append(base, pushed[1])
    /\ Len(pushed) = 1

(***************************************************************************)
(* C16.  An import is all or nothing: when it fails -- as for a file with  *)
(* valid notes and a consoleLogs value that is no sequence -- the note     *)
(* registry, the log buffer and both stored values are as before the       *)
(* import, and the user is told of one failure.                            *)
(***************************************************************************)
C16_ImportAtomic ==
    [][\A f \in Files : (ImportLoad(f) /\ alerts' # <<AlertOk>>) =>
        /\ UNCHANGED <<notesStore, consoleLogs, store>>
        /\ alerts' = <<AlertInvalid>>]_vars

(***************************************************************************)
(* C17.  A successful import of a file with notes P and logs L leaves the  *)
(* registry equal to the old registry overridden key by key by P, the      *)
(* buffer equal to L in L's order, and both stored.                        *)
(***************************************************************************)
C17_ImportMerges ==
    [][\A f \in FilesImport :
        (f.notes.kind = "object" /\ f.logs.kind = "array" /\ ImportLoad(f)) =>
        LET P == f.notes.val
            L == f.logs.val
        IN  /\ alerts' = <<AlertOk>>
            /\ DOMAIN notesStore' = DOMAIN notesStore \cup DOMAIN P
            /\ \A k \in DOMAIN P :
                    /\ notesStore'[k].title = P[k].title
                    /\ notesStore'[k].notes = P[k].notes
                    /\ notesStore'[k].ts = P[k].ts
            /\ \A k \in DOMAIN notesStore \ DOMAIN P : notesStore'[k] = notesStore[k]
            /\ Len(consoleLogs') = Len(L)
            /\ \A i \in 1..Len(L) :
                    /\ consoleLogs'[i].t = L[i].t
                    /\ consoleLogs'[i].lvl = L[i].lvl
                    /\ consoleLogs'[i].msg = L[i].msg
            /\ store'[KEY_NOTES] = Item(NotesToJSON(notesStore'))
            /\ store'[KEY_CONSOLE] = Item(LogsToJSON(consoleLogs'))]_vars

C17_Witness ==
    /\ alerts = <<AlertOk>>
    /\ DOMAIN notesStore = {AgentKey("Asteroids"), "g1", "g3"}
    /\ notesStore["g1"] = [title |-> "Tg1", notes |-> "i", ts |-> -2]
    /\ notesStore[AgentKey("Asteroids")].notes = "r"
    /\ consoleLogs = OldLogs(3)
    /\ store[KEY_NOTES] = Item(NotesToJSON(notesStore))
    /\ store[KEY_CONSOLE] = Item(LogsToJSON(OldLogs(3)))

(***************************************************************************)
(* C18.  After a confirmed clear-all the log buffer and the note registry  *)
(* are empty and the store holds an empty sequence and an empty mapping    *)
(* for them; this is still so after a debounce timer that was pending at   *)
(* the clear has fired.                                                    *)
(***************************************************************************)
AllCleared ==
    /\ consoleLogs = EmptyLogs
    /\ notesStore = EmptyNotes
    /\ store[KEY_CONSOLE] = Item(EmptyLogs)
    /\ store[KEY_NOTES] = Item(EmptyNotes)

C18_ClearAllEmpties ==
    /\ [][(clearedPending' # clearedPending \/ (alerts' # alerts /\ alerts' = <<AlertCleared>>))
            => AllCleared']_vars
    /\ [][(AllCleared /\ timerWrites' # timerWrites) => AllCleared']_vars

C18_Witness ==
    /\ clearedPending # {}
    /\ timers = {}
    /\ timerWrites = 1
    /\ nEdits = 1
    /\ AllCleared

(***************************************************************************)
(* C19.  A failure of the store never reaches the caller: a read of an     *)
(* absent or unparseable item gives the fallback, and while writes fail a  *)
(* console call, a relayed entry and a save of the notes still complete,   *)
(* change the buffer or the registry in memory as usual and leave the      *)
(* store as it was.                                                        *)
(***************************************************************************)
C19_FailuresSwallowed ==
    /\ []((nEdits = 0 /\ ~store[KEY_NOTES].ok) => notesStore = EmptyNotes)
    /\ [](Len(pushed) = 1 => base \in {EmptyLogs, OldLogs(2)})
    /\ [][calls' # calls =>
            LET call == calls'[Len(calls')]
            IN  /\ origCalls' = Append(origCalls, call)
                /\ AppendedOne(consoleLogs, consoleLogs',
                               [t |-> now, lvl |-> call.method,
                                msg |-> FlattenArgs(call.args)])
                /\ writeFails => store' = store
                /\ ~writeFails => store'[KEY_CONSOLE] = Item(LogsToJSON(consoleLogs'))]_vars
    /\ [][(pushed' # pushed /\ calls' = calls) =>
            /\ AppendedOne(consoleLogs, consoleLogs',
                           [t |-> now, lvl |-> "warn", msg |-> "[Asteroids] hi"])
            /\ writeFails => store' = store]_vars
    /\ [][(nEdits' # nEdits /\ currentNoteKey # Null) =>
            /\ notesStore'[currentNoteKey].notes = areaValue'
            /\ store' = store]_vars
    /\ [][timerWrites' # timerWrites =>
            /\ notesStore' = notesStore
            /\ timers' # timers
            /\ writeFails => store' = store
            /\ ~writeFails => store'[KEY_NOTES] = Item(NotesToJSON(notesStore))]_vars

C19_Witness ==
    /\ writeFails
    /\ Len(pushed) = MaxAppends
    /\ base = EmptyLogs
    /\ consoleLogs = pushed
    /\ store[KEY_CONSOLE] # Item(LogsToJSON(consoleLogs))
    /\ nEdits = 1
    /\ timerWrites = 1
    /\ ~store[KEY_NOTES].ok
    /\ notesStore # EmptyNotes

(***************************************************************************)
(* C20.  While writes to the store succeed, every operation of the hub     *)
(* that changes the log buffer -- a local or relayed append, clear logs,   *)
(* an import that succeeds or fails, clear-all -- leaves the buffer stored *)
(* under the console-log key.                                              *)
(***************************************************************************)
C20_BufferPersisted ==
    [][(consoleLogs' # consoleLogs /\ ~writeFails) =>
        store'[KEY_CONSOLE] = Item(LogsToJSON(consoleLogs'))]_vars

(***************************************************************************)
(* C21.  A patch attempt made with injection enabled while the factory is  *)
(* not defined changes nothing; the attempt at DOMContentLoaded patches    *)
(* when the factory is defined by then; while the factory has not          *)
(* appeared, no original is captured however many attempts are made.       *)
(***************************************************************************)
PatchAttempted == toggles' # toggles \/ domReady' # domReady

C21_MissingTargetRetried ==
    /\ [](makeBlankerHTML = NoFunction => origMakeBlankerHTML = NoFunction)
    /\ [][(PatchAttempted /\ injectEnabled' /\ makeBlankerHTML = NoFunction) =>
            /\ makeBlankerHTML' = NoFunction
            /\ origMakeBlankerHTML' = NoFunction]_vars
    /\ [][(domReady' # domReady /\ injectEnabled /\ makeBlankerHTML = Launcher) =>
            /\ makeBlankerHTML' = WrapperFn
            /\ origMakeBlankerHTML' = Launcher]_vars

C21_Witness ==
    /\ toggles = <<>>
    /\ injectEnabled
    /\ domReady
    /\ makeBlankerHTML = WrapperFn
    /\ origMakeBlankerHTML = Launcher
    /\ lastCall.made
    /\ ~lastCall.patched

(***************************************************************************)
(* C22.  A switch of the active note key while a debounce timer is pending *)
(* for the previous key cancels that timer: after the switch no timer set  *)
(* by the previous key's edit is pending.                                  *)
(***************************************************************************)
C22_SwitchCancelsTimer ==
    [][(currentNoteKey' # currentNoteKey /\ timers # {}) => timers' = {}]_vars

(***************************************************************************)
(* C22, as the code has it.  A switch of the active note key while a       *)
(* debounce timer is pending leaves that timer scheduled and leaves the    *)
(* registry in memory and the store as they are: the previous key's edit   *)
(* is written when the timer fires.                                        *)
(***************************************************************************)
C22_SwitchKeepsTimer ==
    [][(currentNoteKey' # currentNoteKey /\ timers # {}) =>
            /\ timers' = timers
            /\ noteSaveTimer' = noteSaveTimer
            /\ notesStore' = notesStore
            /\ store' = store]_vars

C22_Witness ==
    /\ currentNoteKey = "g2"
    /\ lastEdit = [key |-> "g1", text |-> "a", at |-> 0]
    /\ timers # {}
    /\ timerWrites = 0
    /\ notesStore["g1"].notes = "a"
    /\ TextIn(StoredNotes, "g1") # "a"

(***************************************************************************)
(* C24.  Every entry of the hub's log buffer has a level among log, info,  *)
(* warn, error and debug, an integer timestamp and a string message,       *)
(* whether it was intercepted, relayed or imported.                        *)
(***************************************************************************)
C24_EntriesWellFormed ==
    \A i \in 1..Len(consoleLogs) :
        /\ consoleLogs[i].lvl \in LevelSet
        /\ consoleLogs[i].t \in Int
        /\ consoleLogs[i].msg \notin {Undefined, Absent, Null}

(***************************************************************************)
(* C26.  With writes succeeding, in every state in which no debounce timer *)
(* is pending the registry stored under the notes key equals the registry  *)
(* in memory.                                                              *)
(***************************************************************************)
C26_StoreFollowsRegistry ==
    (~writeFails /\ timers = {}) => StoredNotes = notesStore

(***************************************************************************)
(* C25.  A relayed note wins over a pending local edit of the same key:    *)
(* when a NoteRelay for K is handled while K's edit has a timer pending,   *)
(* the text of K in memory and in the store is the relayed text right      *)
(* after; and when that timer then fires with K still holding a relayed    *)
(* text, the stored text of K is the relayed text still.                   *)
(***************************************************************************)
C25_RemoteWriteWins ==
    /\ [][\A d \in NoteRelays :
            (timers # {} /\ lastEdit.key = d.key /\ OnMessage(d)) =>
                /\ TextIn(notesStore', d.key) = d.txt
                /\ TextIn(StoredNotes', d.key) = d.txt]_vars
    /\ [][\A d \in NoteRelays :
            (/\ timerWrites' # timerWrites
             /\ lastEdit.key = d.key
             /\ TextIn(notesStore, d.key) = d.txt) =>
                /\ TextIn(notesStore', d.key) = d.txt
                /\ TextIn(StoredNotes', d.key) = d.txt]_vars

C25_Witness ==
    /\ lastEdit = [key |-> "g1", text |-> "a", at |-> 0]
    /\ "g1" \in DOMAIN notesStore
    /\ notesStore["g1"].notes = "r"
    /\ notesStore["g1"].ts = TickMs
    /\ timers = {}
    /\ timerWrites = 1
    /\ now = DEBOUNCE_MS
    /\ TextIn(StoredNotes, "g1") = "r"

(***************************************************************************)
(* C23.  Over a channel that keeps each child's send order and may lose    *)
(* messages, with children and the hub's own appends interleaved: every    *)
(* entry a child's agent captures is posted to the opener exactly once,    *)
(* and the entries of one child that are in the hub's buffer are there in  *)
(* the order the child captured them.                                      *)
(***************************************************************************)
\* the captures of child c that the entry e of the hub's buffer relays
CapturesOf(c, e) ==
    {i \in 1..Len(agentLogs[c]) :
        /\ e.lvl = agentLogs[c][i].lvl
        /\ e.msg = "[" \o c \o "] " \o agentLogs[c][i].msg}
FromChild(c, e) == CapturesOf(c, e) # {}
CaptureOf(c, e) == CHOOSE i \in CapturesOf(c, e) : TRUE

\* the captures of child c in the buffer, in buffer order
InBuffer(c) ==
    LET es == SelectSeq(consoleLogs, LAMBDA e : FromChild(c, e))
    IN  [j \in 1..Len(es) |-> CaptureOf(c, es[j])]

C23_PostedOnceInOrder ==
    \A c \in Children :
        /\ posts[c] = [i \in 1..Len(agentLogs[c]) |->
                          AgentPost(agentLogs[c][i].lvl, agentLogs[c][i].msg, c)]
        /\ \A j \in 1..(Len(InBuffer(c)) - 1) : InBuffer(c)[j] < InBuffer(c)[j + 1]

C23_Witness ==
    /\ Len(agentLogs["Asteroids"]) = 2
    /\ Len(agentLogs["Cash"]) = 2
    /\ InBuffer("Asteroids") = <<1, 2>>
    /\ InBuffer("Cash") = <<2>>
    /\ Len(consoleLogs) = MAX_LOGS
    /\ \E j \in 1..(MAX_LOGS - 2) :
            /\ FromChild("Asteroids", consoleLogs[j])
            /\ FromChild("Cash", consoleLogs[j + 1])
            /\ FromChild("Asteroids", consoleLogs[j + 2])

=============================================================================
